---- MODULE Spec2Model ----
(***************************************************************************)
(* Model of CartpoleDQN (src/cartpole_dqn.py): the replay buffer, the      *)
(* epsilon-greedy policy, the per-sample Bellman replay and the            *)
(* exploration-rate schedule.                                              *)
(*                                                                         *)
(* Numbers.  The exploration rate is an exact decimal: a record            *)
(* [digits, scale] standing for digits / 10^scale, so that 0.7^n is        *)
(* computed exactly.  Q-values, rewards and targets are integers counting  *)
(* hundredths (100 is 1.0); every Q-value the approximator produces is a   *)
(* multiple of 20, so GAMMA * q is again a whole number of hundredths.     *)
(* Python computes in binary floating point; rounding is outside the model.*)
(*                                                                         *)
(* The approximator is the Keras network: it is held as the table of its   *)
(* outputs, predict reads the table, and fit leaves it in any table of     *)
(* ParamSpace (the gradient step is the library's).                        *)
(***************************************************************************)
EXTENDS Integers, Sequences, FiniteSets, TLC

VARIABLES
    memory,            \* self.memory: the replay buffer, oldest first
    exploration_rate,  \* self.exploration_rate
    model,             \* self.model: the approximator's parameters
    model_file,        \* the content of self.save_path, or NoFile
    hist,              \* history: every remembered transition, in call order
    nTrain,            \* history: number of experience_replay calls that trained
    last,              \* history: the last call, its inputs, draws and result
    budget             \* the calls a run may make: [remember, train]

vars == <<memory, exploration_rate, model, model_file, hist, nTrain, last, budget>>

----------------------------------------------------------------------------
(* Bounds of the model *)

MaxRemember == 4       \* remember calls in a run
MaxTrain == 2          \* experience_replay calls that train in a run
BufferMaxRemember == 5 \* the same, in the runs that fill the buffer past its capacity
BufferMaxTrain == 1
DecayMaxRemember == 2  \* the same, in the runs that follow the exploration schedule
DecayMaxTrain == 15
ActMaxRemember == 2    \* the same, in the runs that take the exploration rate as input
ActMaxTrain == 1

(* Class constants; MEMORY_SIZE (1000000) and BATCH_SIZE (20) scaled down *)
MEMORY_SIZE == 3
BATCH_SIZE == 2
action_space == 2

GAMMA == [num |-> 95, den |-> 100]
EXPLORATION_MAX == [digits |-> <<1>>, scale |-> 0]
EXPLORATION_MIN == [digits |-> <<1>>, scale |-> 2]
EXPLORATION_DECAY == [digits |-> <<7>>, scale |-> 1]

Actions == 0 .. (action_space - 1)
States == {1, 2}       \* observation vectors

NoFile == <<>>         \* save_path does not exist; otherwise <<parameters>>
NoWrite == <<>>        \* a fit without the checkpoint callback writes nothing

Rat(n, d) == [num |-> n, den |-> d]
NOT_READY == <<Rat(-1, 1), Rat(-1, 1)>>

----------------------------------------------------------------------------
(* Exact decimals *)

Zeros(n) == [i \in 1 .. n |-> 0]

RECURSIVE Strip(_)
Strip(ds) ==
    IF ds # <<>> /\ Head(ds) = 0 THEN Strip(Tail(ds)) ELSE ds

RECURSIVE LexLess(_, _)
LexLess(a, b) ==
    IF a = <<>> THEN FALSE
    ELSE IF Head(a) # Head(b) THEN Head(a) < Head(b)
    ELSE LexLess(Tail(a), Tail(b))

NatLess(a, b) ==
    \/ Len(a) < Len(b)
    \/ Len(a) = Len(b) /\ LexLess(a, b)

DecLess(x, y) ==
    NatLess(Strip(x.digits \o Zeros(y.scale)), Strip(y.digits \o Zeros(x.scale)))

DecEq(x, y) == ~DecLess(x, y) /\ ~DecLess(y, x)

DecMax(x, y) == IF DecLess(x, y) THEN y ELSE x

RECURSIVE ToInt(_)
ToInt(ds) ==
    IF ds = <<>> THEN 0 ELSE 10 * ToInt(SubSeq(ds, 1, Len(ds) - 1)) + ds[Len(ds)]

RECURSIVE NatDigits(_)
NatDigits(n) ==
    IF n = 0 THEN <<>> ELSE Append(NatDigits(n \div 10), n % 10)

RECURSIVE MulCarry(_, _, _)
MulCarry(ds, m, carry) ==
    IF ds = <<>> THEN NatDigits(carry)
    ELSE LET p == ds[Len(ds)] * m + carry
         IN  Append(MulCarry(SubSeq(ds, 1, Len(ds) - 1), m, p \div 10), p % 10)

(* x * y, for y of a few digits *)
DecMul(x, y) ==
    [digits |-> MulCarry(x.digits, ToInt(y.digits), 0), scale |-> x.scale + y.scale]

RECURSIVE DecPow(_, _)
DecPow(x, n) ==
    IF n = 0 THEN [digits |-> <<1>>, scale |-> 0] ELSE DecMul(DecPow(x, n - 1), x)

----------------------------------------------------------------------------
(* Inputs *)

Transition(s, a, r, s2, d) ==
    [state |-> s, action |-> a, reward |-> r, state_next |-> s2, terminal |-> d]

TransitionPool ==
    { Transition(1, 0, 100, 2, FALSE),
      Transition(2, 1, -100, 1, TRUE) }

W1 == (1 :> (0 :> 0 @@ 1 :> 20)) @@ (2 :> (0 :> 20 @@ 1 :> 20))
W2 == (1 :> (0 :> 40 @@ 1 :> 0)) @@ (2 :> (0 :> 0 @@ 1 :> 60))

ParamSpace == {W1, W2}

UDraws ==
    { [digits |-> <<0>>, scale |-> 0],
      [digits |-> <<7>>, scale |-> 1] }

----------------------------------------------------------------------------
(* remember *)

DequeAppendNoEvict(buf, t) == Append(buf, t)

DequeAppend(buf, t) ==
    IF Len(buf) >= MEMORY_SIZE THEN Append(Tail(buf), t) ELSE Append(buf, t)

Remember ==
    /\ Len(hist) < budget.remember
    /\ \E t \in TransitionPool :
          /\ memory' = DequeAppend(memory, t)
          /\ hist' = Append(hist, t)
          /\ last' = [op |-> "remember"]
    /\ UNCHANGED <<exploration_rate, model, model_file, nTrain, budget>>

----------------------------------------------------------------------------
(* act *)

Predict(params, s) == params[s]

Max(S) == CHOOSE x \in S : \A y \in S : y <= x

AMax(q) == Max({q[a] : a \in DOMAIN q})

ArgMaxLast(q) == Max({a \in DOMAIN q : q[a] = AMax(q)})

ArgMax(q) ==
    CHOOSE a \in DOMAIN q : /\ q[a] = AMax(q)
                            /\ \A b \in DOMAIN q : b < a => q[b] < q[a]

Explore(u, rate) == DecLess(u, rate)

Act ==
    /\ \E s \in States, u \in UDraws :
          IF Explore(u, exploration_rate)
          THEN \E ra \in Actions :     \* random.randrange(self.action_space)
                  last' = [op |-> "act", state |-> s, u |-> u,
                           random |-> TRUE, ret |-> ra]
          ELSE last' = [op |-> "act", state |-> s, u |-> u,
                        random |-> FALSE, ret |-> ArgMax(Predict(model, s))]
    /\ UNCHANGED <<memory, exploration_rate, model, model_file, hist, nTrain, budget>>

----------------------------------------------------------------------------
(* experience_replay *)

NotReadyOffByOne(buf) == Len(buf) < BATCH_SIZE - 1

NotReady(buf) == Len(buf) < BATCH_SIZE

(* random.sample(population, k): k distinct positions, in any order; no    *)
(* outcome (ValueError) when k exceeds the population                      *)
RandomChoices(n, k) == [1 .. k -> 1 .. n]

RandomSample(n, k) ==
    {s \in [1 .. k -> 1 .. n] : \A i, j \in 1 .. k : i # j => s[i] # s[j]}

QUpdateAlwaysBootstrap(params, t) ==
    t.reward + (GAMMA.num * AMax(Predict(params, t.state_next))) \div GAMMA.den

QUpdate(params, t) ==
    IF ~t.terminal
    THEN t.reward + (GAMMA.num * AMax(Predict(params, t.state_next))) \div GAMMA.den
    ELSE t.reward

LabelsOnlyTaken(params, t) ==
    [a \in Actions |-> IF a = t.action THEN QUpdate(params, t) ELSE 0]

Labels(params, t) ==
    [Predict(params, t.state) EXCEPT ![t.action] = QUpdate(params, t)]

RECURSIVE SumSeq(_)
SumSeq(xs) == IF xs = <<>> THEN 0 ELSE Head(xs) + SumSeq(Tail(xs))

(* loss="mse": the mean over the outputs of the squared error *)
Mse(pred, labels) ==
    Rat(SumSeq([i \in 1 .. action_space |->
                   (pred[i - 1] - labels[i - 1]) * (pred[i - 1] - labels[i - 1])]),
        action_space)

(* ModelCheckpoint(save_best_only=False) writes the model at the end of    *)
(* the fit's epoch; the empty callback list writes nothing                 *)
Checkpoint(save, params) == IF save THEN <<params>> ELSE NoWrite

(* One pass of the loop body: the labels, then fit, which leaves the       *)
(* approximator with the parameters `out`                                  *)
TrainStep(params, t, out, save) ==
    LET q_values == Labels(params, t)
    IN  [state  |-> t.state,
         labels |-> q_values,
         after  |-> out,
         wrote  |-> Checkpoint(save, out),
         loss   |-> Mse(Predict(params, t.state), q_values),
         reward |-> t.reward]

(* The labels of the whole batch computed from the parameters the call     *)
(* started with *)
TrainLoopStale(params, batch, outs, save) ==
    [i \in 1 .. Len(batch) |->
        LET cur == IF i = 1 THEN params ELSE outs[i - 1]
        IN  [TrainStep(cur, batch[i], outs[i], save)
                EXCEPT !.labels = Labels(params, batch[i])]]

(* The checkpoint written on the last step of the batch only *)
TrainLoopSaveLast(params, batch, outs, save) ==
    [i \in 1 .. Len(batch) |->
        LET cur == IF i = 1 THEN params ELSE outs[i - 1]
        IN  [TrainStep(cur, batch[i], outs[i], save)
                EXCEPT !.wrote = IF i = Len(batch) THEN @ ELSE NoWrite]]

RECURSIVE TrainLoop(_, _, _, _)
TrainLoop(params, batch, outs, save) ==
    IF batch = <<>> THEN <<>>
    ELSE LET step == TrainStep(params, Head(batch), Head(outs), save)
         IN  <<step>> \o TrainLoop(step.after, Tail(batch), Tail(outs), save)

DecayNoFloor(rate) == DecMul(rate, EXPLORATION_DECAY)

Decay(rate) == DecMax(EXPLORATION_MIN, DecMul(rate, EXPLORATION_DECAY))

RECURSIVE DecayPerSample(_, _)
DecayPerSample(rate, n) ==
    IF n = 0 THEN rate ELSE DecayPerSample(Decay(rate), n - 1)

(* The rate after the loop over a batch of n transitions *)
ExplorationAfter(rate, n) == Decay(rate)

MeanInt(xs) == Rat(SumSeq(xs), Len(xs))

MeanRat(xs) ==
    Rat(SumSeq([i \in 1 .. Len(xs) |-> xs[i].num]), xs[1].den * Len(xs))

(* The model file after the writes of the batch, each over the last *)
RECURSIVE FinalFile(_, _)
FinalFile(file, fits) ==
    IF fits = <<>> THEN file
    ELSE FinalFile(IF Head(fits).wrote = NoWrite THEN file ELSE Head(fits).wrote,
                   Tail(fits))

ExperienceReplay ==
    /\ nTrain < budget.train
    /\ UNCHANGED budget
    /\ \E save \in BOOLEAN :
          IF NotReady(memory)
          THEN /\ last' = [op |-> "experience_replay", save |-> save,
                           raised |-> "", ret |-> NOT_READY,
                           sample |-> <<>>, fits |-> <<>>]
               /\ UNCHANGED <<memory, exploration_rate, model, model_file,
                              hist, nTrain>>
          ELSE IF RandomSample(Len(memory), BATCH_SIZE) = {}
          THEN /\ last' = [op |-> "experience_replay", save |-> save,
                           raised |-> "ValueError", ret |-> <<>>,
                           sample |-> <<>>, fits |-> <<>>]
               /\ UNCHANGED <<memory, exploration_rate, model, model_file,
                              hist, nTrain>>
          ELSE \E sample \in RandomSample(Len(memory), BATCH_SIZE),
                  outs \in [1 .. BATCH_SIZE -> ParamSpace],
                  rate \in {ExplorationAfter(exploration_rate, BATCH_SIZE)} :
                  \E fits \in {TrainLoop(model, [i \in 1 .. BATCH_SIZE |-> memory[sample[i]]],
                                         outs, save)} :
                      /\ model' = fits[Len(fits)].after
                      /\ model_file' = FinalFile(model_file, fits)
                      /\ exploration_rate' = rate
                      /\ nTrain' = nTrain + 1
                      /\ last' = [op |-> "experience_replay", save |-> save,
                                  raised |-> "",
                                  ret |-> <<MeanRat([i \in 1 .. Len(fits) |-> fits[i].loss]),
                                            MeanInt([i \in 1 .. Len(fits) |-> fits[i].reward])>>,
                                  sample |-> sample, fits |-> fits]
                      /\ UNCHANGED <<memory, hist>>

----------------------------------------------------------------------------
Construct(rate, b) ==
    /\ memory = <<>>
    /\ exploration_rate = rate
    /\ model_file \in {NoFile} \cup {<<w>> : w \in ParamSpace}
    /\ model \in IF model_file = NoFile THEN ParamSpace ELSE {model_file[1]}
    /\ hist = <<>>
    /\ nTrain = 0
    /\ last = [op |-> "init"]
    /\ budget = b

Init == Construct(EXPLORATION_MAX, [remember |-> MaxRemember, train |-> MaxTrain])

Next == Remember \/ Act \/ ExperienceReplay

Spec == Init /\ [][Next]_vars

(* Runs that remember more transitions than the buffer holds *)
InitBuffer ==
    Construct(EXPLORATION_MAX,
              [remember |-> BufferMaxRemember, train |-> BufferMaxTrain])

SpecBuffer == InitBuffer /\ [][Next]_vars

(* Long runs of training calls, for the exploration schedule *)
InitDecay ==
    Construct(EXPLORATION_MAX,
              [remember |-> DecayMaxRemember, train |-> DecayMaxTrain])

SpecDecay == InitDecay /\ [][Next]_vars

(* act as a function of the exploration rate: the attribute is public and  *)
(* a caller may set it, to 0 for a greedy policy                           *)
RateInputs ==
    { [digits |-> <<0>>, scale |-> 0], EXPLORATION_MIN, EXPLORATION_MAX }

InitAct ==
    \E rate \in RateInputs :
        Construct(rate, [remember |-> ActMaxRemember, train |-> ActMaxTrain])

SpecAct == InitAct /\ [][Next]_vars

----------------------------------------------------------------------------
(* Properties *)

Min(a, b) == IF a < b THEN a ELSE b

LastN(seq, n) == SubSeq(seq, Len(seq) - n + 1, Len(seq))

(* The step is an experience_replay call that trained on a batch *)
TrainedStep == last'.op = "experience_replay" /\ nTrain' = nTrain + 1

(* The last call was an experience_replay call that trained on a batch *)
Trained == last.op = "experience_replay" /\ last.fits # <<>>

(* The i-th transition drawn by the last call *)
Drawn(i) == memory[last.sample[i]]

(* C1: the buffer never holds more than MEMORY_SIZE transitions and is     *)
(* always the most recent min(n, MEMORY_SIZE) of the n remembered          *)
(* transitions, in the order they were remembered, whatever act and        *)
(* experience_replay calls are interleaved.                                *)
C1_BufferIsRecentSuffix ==
    /\ Len(memory) <= MEMORY_SIZE
    /\ memory = LastN(hist, Min(Len(hist), MEMORY_SIZE))

C1_Witness ==
    /\ Len(hist) > MEMORY_SIZE + 1
    /\ Head(hist) # Head(memory)
    /\ nTrain > 0
    /\ last.op = "act"

(* C2: an experience_replay call made while the buffer holds fewer than    *)
(* BATCH_SIZE transitions returns (-1, -1), runs no fit, and leaves the    *)
(* buffer, the exploration rate, the parameters and the model file as      *)
(* they were.                                                              *)
C2_ColdStart ==
    [][ (last'.op = "experience_replay" /\ Len(memory) < BATCH_SIZE)
        => /\ last'.raised = ""
           /\ last'.ret = NOT_READY
           /\ last'.fits = <<>>
           /\ UNCHANGED <<memory, exploration_rate, model, model_file>> ]_vars

C2_Witness ==
    /\ last.op = "experience_replay"
    /\ last.ret = NOT_READY
    /\ Len(memory) = BATCH_SIZE - 1

(* C3: the exploration rate always lies between EXPLORATION_MIN and        *)
(* EXPLORATION_MAX.                                                        *)
C3_ExplorationBounds ==
    /\ ~DecLess(exploration_rate, EXPLORATION_MIN)
    /\ ~DecLess(EXPLORATION_MAX, exploration_rate)

C3_Witness ==
    /\ DecEq(exploration_rate, EXPLORATION_MIN)
    /\ DecLess(DecPow(EXPLORATION_DECAY, nTrain), EXPLORATION_MIN)
    /\ DecLess(DecPow(EXPLORATION_DECAY, nTrain - 1), EXPLORATION_MIN)

(* C4: after n experience_replay calls that trained, and whatever other    *)
(* calls in between, the exploration rate is                               *)
(* max(EXPLORATION_MIN, EXPLORATION_MAX * EXPLORATION_DECAY^n): 0.7 after  *)
(* one, 0.49 after two, and 0.01 from the call that first reaches it.      *)
C4_ExplorationSchedule ==
    /\ DecEq(exploration_rate,
             DecMax(EXPLORATION_MIN,
                    DecMul(DecPow(EXPLORATION_DECAY, nTrain), EXPLORATION_MAX)))
    /\ nTrain = 1 => DecEq(exploration_rate, [digits |-> <<7>>, scale |-> 1])
    /\ nTrain = 2 => DecEq(exploration_rate, [digits |-> <<4, 9>>, scale |-> 2])

C4_Witness ==
    /\ nTrain = 2
    /\ DecEq(exploration_rate, [digits |-> <<4, 9>>, scale |-> 2])
    /\ last.op = "act"

(* C5: for a terminal transition of the batch the label at the taken       *)
(* action is the reward itself, whatever the approximator predicts for     *)
(* the successor state.                                                    *)
C5_TerminalTarget ==
    Trained =>
        \A i \in 1 .. Len(last.fits) :
            Drawn(i).terminal =>
                last.fits[i].labels[Drawn(i).action] = Drawn(i).reward

C5_Witness ==
    /\ Trained
    /\ \E i \in 2 .. Len(last.fits) :
          /\ Drawn(i).terminal
          /\ AMax(Predict(last.fits[i - 1].after, Drawn(i).state_next)) > 0

(* C6: for a non-terminal transition of the batch the label at the taken   *)
(* action is reward + GAMMA * max Approximator(s'), with the parameters    *)
(* as they are when the loop reaches the transition: those the call        *)
(* started with for the first, those the previous fit left for the others. *)
C6_BootstrapTarget ==
    [][ TrainedStep =>
          \A i \in 1 .. Len(last'.fits) :
              LET t == memory[last'.sample[i]]
                  cur == IF i = 1 THEN model ELSE last'.fits[i - 1].after
              IN  ~t.terminal =>
                      (last'.fits[i].labels[t.action] - t.reward) * GAMMA.den
                          = GAMMA.num * AMax(cur[t.state_next]) ]_vars

C6_Witness ==
    /\ Trained
    /\ \E i \in 2 .. Len(last.fits) :
          /\ ~Drawn(i).terminal
          /\ ~Drawn(1).terminal
          /\ (last.fits[i].labels[Drawn(i).action] - Drawn(i).reward) * GAMMA.den
                 = GAMMA.num * AMax(last.fits[i - 1].after[Drawn(i).state_next])
          /\ (last.fits[1].labels[Drawn(1).action] - Drawn(1).reward) * GAMMA.den
                 # GAMMA.num * AMax(last.fits[i - 1].after[Drawn(i).state_next])

(* C7: act explores exactly when its draw u is below the exploration       *)
(* rate, so never when the rate is 0; otherwise it returns the lowest      *)
(* index at which Approximator(s) is largest; and it leaves the buffer,    *)
(* the exploration rate, the parameters and the model file as they were.   *)
C7_ActPolicy ==
    [][ last'.op = "act" =>
          LET q == model[last'.state]
          IN  /\ last'.random <=> DecLess(last'.u, exploration_rate)
              /\ DecEq(exploration_rate, [digits |-> <<0>>, scale |-> 0])
                    => ~last'.random
              /\ last'.random => last'.ret \in Actions
              /\ ~last'.random =>
                    /\ last'.ret \in Actions
                    /\ \A b \in Actions : q[b] <= q[last'.ret]
                    /\ \A b \in Actions : b < last'.ret => q[b] < q[last'.ret]
              /\ UNCHANGED <<memory, exploration_rate, model, model_file>> ]_vars

C7_Witness ==
    /\ DecEq(exploration_rate, [digits |-> <<0>>, scale |-> 0])
    /\ last.op = "act"
    /\ ~last.random
    /\ last.ret = 0
    /\ \A b \in Actions : model[last.state][b] = model[last.state][0]

(* C8: the label vector of each fit is Approximator(s), under the          *)
(* parameters current when the loop reaches the transition, in every       *)
(* component but the taken action's, which holds the Bellman target.       *)
C8_LabelsFrame ==
    [][ TrainedStep =>
          \A i \in 1 .. Len(last'.fits) :
              LET t == memory[last'.sample[i]]
                  cur == IF i = 1 THEN model ELSE last'.fits[i - 1].after
                  labels == last'.fits[i].labels
              IN  /\ DOMAIN labels = Actions
                  /\ last'.fits[i].state = t.state
                  /\ \A b \in Actions \ {t.action} : labels[b] = cur[t.state][b]
                  /\ IF t.terminal
                     THEN labels[t.action] = t.reward
                     ELSE (labels[t.action] - t.reward) * GAMMA.den
                             = GAMMA.num * AMax(cur[t.state_next]) ]_vars

C8_Witness ==
    /\ Trained
    /\ \E i \in 2 .. Len(last.fits) :
          \E b \in Actions \ {Drawn(i).action} :
              /\ last.fits[i].labels[b] = last.fits[i - 1].after[Drawn(i).state][b]
              /\ last.fits[i].labels[b] # 0
              /\ last.fits[i].labels[b] # last.fits[i].labels[Drawn(i).action]

(* C9: a call that trains draws BATCH_SIZE transitions from BATCH_SIZE     *)
(* distinct positions of the buffer, runs one fit for each in the order    *)
(* drawn, leaves the buffer as it was, and returns as mean reward the      *)
(* mean of the rewards of the drawn transitions.                           *)
C9_SampleAndFit ==
    [][ TrainedStep =>
          /\ Len(last'.sample) = BATCH_SIZE
          /\ \A i \in 1 .. BATCH_SIZE : last'.sample[i] \in 1 .. Len(memory)
          /\ \A i, j \in 1 .. BATCH_SIZE : i # j => last'.sample[i] # last'.sample[j]
          /\ Len(last'.fits) = BATCH_SIZE
          /\ \A i \in 1 .. BATCH_SIZE :
                /\ last'.fits[i].state = memory[last'.sample[i]].state
                /\ last'.fits[i].reward = memory[last'.sample[i]].reward
          /\ memory' = memory
          /\ last'.ret[2].den = BATCH_SIZE
          /\ last'.ret[2].num
                = SumSeq([i \in 1 .. BATCH_SIZE |-> memory[last'.sample[i]].reward]) ]_vars

C9_Witness ==
    /\ Trained
    /\ Len(memory) = MEMORY_SIZE
    /\ last.sample[1] > last.sample[2]
    /\ Drawn(1) = Drawn(2)
    /\ memory[1] # memory[2]
    /\ last.ret[2] = Rat(BATCH_SIZE * Drawn(1).reward, BATCH_SIZE)

====
